---- MODULE Spec2Model ----
(***************************************************************************)
(* BoblogUI.lunar: Gregorian-to-lunar conversion by table lookup           *)
(* (getLunar) and the decoders of the packed per-year table.               *)
(*                                                                         *)
(* A behaviour is one call: Init picks the function and its arguments, the  *)
(* action of that function runs it to completion and stores what it        *)
(* returned or that it threw.                                              *)
(*                                                                         *)
(* Date arithmetic: new Date(y, m-1, d).getTime() is modelled in minutes   *)
(* (milliseconds exceed the checker's integers).  The Date constructor     *)
(* reads the local time zone: dst is the number of minutes by which        *)
(* daylight-saving time is ahead at the local midnight of the date of the  *)
(* call: 0 in a zone on standard time all year, 60 on the summer dates of  *)
(* a zone of the northern hemisphere, where 1 January and the epoch        *)
(* 1900-01-31 are on standard time.                                        *)
(***************************************************************************)
EXTENDS Integers, Sequences, FiniteSets, TLC

VARIABLES fn, args, pc, ret, dst

vars == <<fn, args, pc, ret, dst>>

\* Years of input drawn on each side of the supported window 1900..2100.
Margin == 1

(* === lunar data table (1900-2100) === *)
LUNAR_INFO ==
  <<
    \h04bd8, \h04ae0, \h0a570, \h054d5, \h0d260, \h0d950, \h16554, \h056a0, \h09ad0, \h055d2,  \* 1900-1909
    \h04ae0, \h0a5b6, \h0a4d0, \h0d250, \h1d255, \h0b540, \h0d6a0, \h0ada2, \h095b0, \h14977,  \* 1910-1919
    \h04970, \h0a4b0, \h0b4b5, \h06a50, \h06d40, \h1ab54, \h02b60, \h09570, \h052f2, \h04970,  \* 1920-1929
    \h06566, \h0d4a0, \h0ea50, \h06e95, \h05ad0, \h02b60, \h186e3, \h092e0, \h1c8d7, \h0c950,  \* 1930-1939
    \h0d4a0, \h1d8a6, \h0b550, \h056a0, \h1a5b4, \h025d0, \h092d0, \h0d2b2, \h0a950, \h0b557,  \* 1940-1949
    \h06ca0, \h0b550, \h15355, \h04da0, \h0a5b0, \h14573, \h052b0, \h0a9a8, \h0e950, \h06aa0,  \* 1950-1959
    \h0aea6, \h0ab50, \h04b60, \h0aae4, \h0a570, \h05260, \h0f263, \h0d950, \h05b57, \h056a0,  \* 1960-1969
    \h096d0, \h04dd5, \h04ad0, \h0a4d0, \h0d4d4, \h0d250, \h0d558, \h0b540, \h0b6a0, \h195a6,  \* 1970-1979
    \h095b0, \h049b0, \h0a974, \h0a4b0, \h0b27a, \h06a50, \h06d40, \h0af46, \h0ab60, \h09570,  \* 1980-1989
    \h04af5, \h04970, \h064b0, \h074a3, \h0ea50, \h06b58, \h05ac0, \h0ab60, \h096d5, \h092e0,  \* 1990-1999
    \h0c960, \h0d954, \h0d4a0, \h0da50, \h07552, \h056a0, \h0abb7, \h025d0, \h092d0, \h0cab5,  \* 2000-2009
    \h0a950, \h0b4a0, \h0baa4, \h0ad50, \h055d9, \h04ba0, \h0a5b0, \h15176, \h052b0, \h0a930,  \* 2010-2019
    \h07954, \h06aa0, \h0ad50, \h05b52, \h04b60, \h0a6e6, \h0a4e0, \h0d260, \h0ea65, \h0d530,  \* 2020-2029
    \h05aa0, \h076a3, \h096d0, \h04afb, \h04ad0, \h0a4d0, \h1d0b6, \h0d250, \h0d520, \h0dd45,  \* 2030-2039
    \h0b5a0, \h056d0, \h055b2, \h049b0, \h0a577, \h0a4b0, \h0aa50, \h1b255, \h06d20, \h0ada0,  \* 2040-2049
    \h14b63, \h09370, \h049f8, \h04970, \h064b0, \h168a6, \h0ea50, \h06b20, \h1a6c4, \h0aae0,  \* 2050-2059
    \h0a2e0, \h0d2e3, \h0c960, \h0d557, \h0d4a0, \h0da50, \h05d55, \h056a0, \h0a6d0, \h055d4,  \* 2060-2069
    \h052d0, \h0a9b8, \h0a950, \h0b4a0, \h0b6a6, \h0ad50, \h055a0, \h0aba4, \h0a5b0, \h052b0,  \* 2070-2079
    \h0b273, \h06930, \h07337, \h06aa0, \h0ad50, \h14b55, \h04b60, \h0a570, \h054e4, \h0d160,  \* 2080-2089
    \h0e968, \h0d520, \h0daa0, \h16aa6, \h056d0, \h04ae0, \h0a9d4, \h0a2d0, \h0d150, \h0f252,  \* 2090-2099
    \h0d520  \* 2100
  >>

LUNAR_BASE_YEAR == 1900

\* Value of a read of LUNAR_INFO outside the array.
Undefined == -1

\* ToInt32 as the bitwise operators apply it: undefined becomes 0; the
\* table entries are below 2^17 and stay as they are.
ToInt32(v) == IF v = Undefined THEN 0 ELSE v

(* === built-in Date, in minutes === *)
MINUTES_PER_DAY == 24 * 60

\* Days from 1970-01-01 to the Gregorian date (y, m, d), as MakeDay counts.
MakeDay(y, m, d) ==
  LET a  == (14 - m) \div 12
      yy == y + 4800 - a
      mm == m + 12 * a - 3
  IN  d + (153 * mm + 2) \div 5 + 365 * yy + yy \div 4 - yy \div 100
        + yy \div 400 - 32045 - 2440588

\* new Date(year, month - 1, day).getTime() of a date on standard time
getTime(year, month, day) == MakeDay(year, month, day) * MINUTES_PER_DAY

LUNAR_BASE_DATE_OneBasedMonth == getTime(1900, 2, 31)

\* LUNAR_BASE_DATE = new Date(1900, 0, 31)
LUNAR_BASE_DATE == getTime(1900, 1, 31)

(* === decoders === *)
getLunarYearInfo(year) ==
  LET idx == year - LUNAR_BASE_YEAR
  IN  IF idx >= 0 /\ idx < Len(LUNAR_INFO) THEN LUNAR_INFO[idx + 1]
      ELSE Undefined

\* (info >> 13) & 0x0F
getLeapMonth(year) ==
  LET info == getLunarYearInfo(year)
  IN  (ToInt32(info) \div 8192) % 16

getLeapMonthDays_InvertedTest(year) ==
  IF getLeapMonth(year) # 0 THEN 0
  ELSE LET info == getLunarYearInfo(year)
       IN  IF (ToInt32(info) \div 65536) % 2 = 1 THEN 30 ELSE 29

\* (info & 0x10000) ? 30 : 29, and 0 without a leap month
getLeapMonthDays(year) ==
  IF getLeapMonth(year) = 0 THEN 0
  ELSE LET info == getLunarYearInfo(year)
       IN  IF (ToInt32(info) \div 65536) % 2 = 1 THEN 30 ELSE 29

\* (info & (1 << (month - 1))) ? 30 : 29
getMonthDays(year, month) ==
  LET info == getLunarYearInfo(year)
  IN  IF (ToInt32(info) \div (2 ^ (month - 1))) % 2 = 1 THEN 30 ELSE 29

RECURSIVE sumMonthDays(_, _)
sumMonthDays(year, i) ==
  IF i > 12 THEN 0 ELSE getMonthDays(year, i) + sumMonthDays(year, i + 1)

yearDaysOf_NoLeap(year) == sumMonthDays(year, 1)

\* days = the 12 month lengths, then days += getLeapMonthDays(year)
yearDaysOf(year) == sumMonthDays(year, 1) + getLeapMonthDays(year)

\* getYearDays is evaluated once per year and looked up afterwards.
YearDaysMemo == [y \in (1900 - Margin)..(2101 + Margin) |-> yearDaysOf(y)]

getYearDays(year) == YearDaysMemo[year]

\* Math.floor(diff / (24 * 60 * 60 * 1000))
getDaysBetween(date1, date2) == (date1 - date2) \div MINUTES_PER_DAY

(* === getLunar === *)

yearWalkStep_BreakAtEqual(st) ==
  IF ~(st.lunarYear < 2101 /\ st.offset > 0)
  THEN [st EXCEPT !.running = FALSE]
  ELSE LET yearDays == getYearDays(st.lunarYear)
       IN  IF st.offset <= yearDays
           THEN [st EXCEPT !.running = FALSE]
           ELSE [st EXCEPT !.offset = st.offset - yearDays,
                           !.lunarYear = st.lunarYear + 1,
                           !.iterations = st.iterations + 1]

\* One pass of  while (lunarYear < 2101 && offset > 0) { ... }  over the
\* loop state; running is FALSE once the guard failed or the body broke out.
yearWalkStep(st) ==
  IF ~(st.lunarYear < 2101 /\ st.offset > 0)
  THEN [st EXCEPT !.running = FALSE]
  ELSE LET yearDays == getYearDays(st.lunarYear)
       IN  IF st.offset < yearDays
           THEN [st EXCEPT !.running = FALSE]
           ELSE [st EXCEPT !.offset = st.offset - yearDays,
                           !.lunarYear = st.lunarYear + 1,
                           !.iterations = st.iterations + 1]

\* The loop guard lets lunarYear grow from 1900 to 2101 and no further, so
\* the loop has exited after this many passes.
YearWalkFuel == 2101 - LUNAR_BASE_YEAR + 1

\* Runs the loop for at most n passes, stopping when it has exited.
RECURSIVE yearWalkRun(_, _)
yearWalkRun(n, st) ==
  IF ~st.running THEN st
  ELSE IF n <= 1 THEN yearWalkStep(st)
  ELSE yearWalkRun(n - n \div 2, yearWalkRun(n \div 2, st))

yearWalk(offset) ==
  yearWalkRun(YearWalkFuel,
              [lunarYear |-> LUNAR_BASE_YEAR, offset |-> offset,
               iterations |-> 0, running |-> TRUE])

\* (this loop never ends once it has passed the leap month: the walk is cut
\* after 20 passes)
RECURSIVE monthWalk_NoFlagTest(_, _, _, _, _, _, _)
monthWalk_NoFlagTest(lunarYear, leapMonth, i, offset, isLeapMonth, passes, decrements) ==
  IF i > 12 \/ passes >= 20
  THEN [lunarMonth |-> 1, offset |-> offset, isLeapMonth |-> isLeapMonth,
        passes |-> passes, decrements |-> decrements]
  ELSE LET enterLeap == leapMonth > 0 /\ i = leapMonth + 1
           i2        == IF enterLeap THEN i - 1 ELSE i
           leap2     == enterLeap \/ isLeapMonth
           monthDays == IF enterLeap THEN getLeapMonthDays(lunarYear)
                        ELSE getMonthDays(lunarYear, i)
           decr2     == IF enterLeap THEN decrements + 1 ELSE decrements
       IN  IF offset < monthDays
           THEN [lunarMonth |-> i2, offset |-> offset, isLeapMonth |-> leap2,
                 passes |-> passes + 1, decrements |-> decr2]
           ELSE monthWalk_NoFlagTest(lunarYear, leapMonth, i2 + 1,
                                     offset - monthDays,
                                     leap2 /\ ~(i2 = leapMonth + 1),
                                     passes + 1, decr2)

\* for (var i = 1; i <= 12; i++) { ... }; lunarMonth stays 1 when the loop
\* ends without a break.
\* passes counts the runs of the loop body, decrements the runs of "i--".
RECURSIVE monthWalk(_, _, _, _, _, _, _)
monthWalk(lunarYear, leapMonth, i, offset, isLeapMonth, passes, decrements) ==
  IF i > 12
  THEN [lunarMonth |-> 1, offset |-> offset, isLeapMonth |-> isLeapMonth,
        passes |-> passes, decrements |-> decrements]
  ELSE LET enterLeap == leapMonth > 0 /\ i = leapMonth + 1 /\ ~isLeapMonth
           i2        == IF enterLeap THEN i - 1 ELSE i
           leap2     == enterLeap \/ isLeapMonth
           monthDays == IF enterLeap THEN getLeapMonthDays(lunarYear)
                        ELSE getMonthDays(lunarYear, i)
           decr2     == IF enterLeap THEN decrements + 1 ELSE decrements
       IN  IF offset < monthDays
           THEN [lunarMonth |-> i2, offset |-> offset, isLeapMonth |-> leap2,
                 passes |-> passes + 1, decrements |-> decr2]
           ELSE monthWalk(lunarYear, leapMonth, i2 + 1, offset - monthDays,
                          leap2 /\ ~(i2 = leapMonth + 1), passes + 1, decr2)

\* Name tables, the names in pinyin.
LUNAR_MONTH_NAMES ==
  <<"zhengyue", "eryue", "sanyue", "siyue", "wuyue", "liuyue", "qiyue",
    "bayue", "jiuyue", "shiyue", "dongyue", "layue">>

LUNAR_DAY_NAMES ==
  <<"chuyi", "chuer", "chusan", "chusi", "chuwu", "chuliu", "chuqi", "chuba",
    "chujiu", "chushi", "shiyi", "shier", "shisan", "shisi", "shiwu",
    "shiliu", "shiqi", "shiba", "shijiu", "ershi", "nianyi", "nianer",
    "niansan", "niansi", "nianwu", "nianliu", "nianqi", "nianba", "nianjiu",
    "sanshi">>

GAN == <<"jia", "yi", "bing", "ding", "wu", "ji", "geng", "xin", "ren", "gui">>

ZHI ==
  <<"zi", "chou", "yin", "mao", "chen", "si", "wu", "wei", "shen", "you",
    "xu", "hai">>

\* table[index] of a name table (0-based); reading outside the table gives
\* undefined, which string concatenation turns into "undefined".
nameAt(table, index) ==
  IF index >= 0 /\ index < Len(table) THEN table[index + 1] ELSE "undefined"

\* JavaScript %, the remainder takes the sign of the dividend.
jsRem(a, b) == IF a >= 0 THEN a % b ELSE -((-a) % b)

Throw == [kind |-> "throw"]

getLunarBody_SwappedModuli(year, month, day) ==
  LET inputDate == getTime(year, month, day) - dst
      offset    == getDaysBetween(inputDate, LUNAR_BASE_DATE)
      yw        == yearWalk(offset)
      lunarYear == yw.lunarYear
      mw        == monthWalk(lunarYear, getLeapMonth(lunarYear), 1,
                             yw.offset, FALSE, 0, 0)
      lunarDay  == mw.offset + 1
      ganIndex  == jsRem(lunarYear - 4, 12)
      zhiIndex  == jsRem(lunarYear - 4, 10)
  IN  [kind |-> "ok",
       lunarYear |-> lunarYear,
       lunarMonth |-> mw.lunarMonth,
       lunarDay |-> lunarDay,
       isLeapMonth |-> mw.isLeapMonth,
       lunarMonthText |-> (IF mw.isLeapMonth THEN "run" ELSE "")
                          \o nameAt(LUNAR_MONTH_NAMES, mw.lunarMonth - 1),
       lunarDayText |-> nameAt(LUNAR_DAY_NAMES, lunarDay - 1),
       ganZhiYear |-> nameAt(GAN, ganIndex) \o nameAt(ZHI, zhiIndex),
       locals |-> [offset |-> offset, yearOffset |-> yw.offset,
                   yearIterations |-> yw.iterations,
                   monthPasses |-> mw.passes,
                   monthDecrements |-> mw.decrements]]

\* getLunar after its argument check: offset, year walk, month walk, result.
\* locals is not part of the returned object: it keeps what the local
\* variables of the call held at the return statement.
getLunarBody(year, month, day) ==
  LET inputDate == getTime(year, month, day) - dst
      offset    == getDaysBetween(inputDate, LUNAR_BASE_DATE)
      yw        == yearWalk(offset)
      lunarYear == yw.lunarYear
      mw        == monthWalk(lunarYear, getLeapMonth(lunarYear), 1,
                             yw.offset, FALSE, 0, 0)
      lunarDay  == mw.offset + 1
      ganIndex  == jsRem(lunarYear - 4, 10)
      zhiIndex  == jsRem(lunarYear - 4, 12)
  IN  [kind |-> "ok",
       lunarYear |-> lunarYear,
       lunarMonth |-> mw.lunarMonth,
       lunarDay |-> lunarDay,
       isLeapMonth |-> mw.isLeapMonth,
       lunarMonthText |-> (IF mw.isLeapMonth THEN "run" ELSE "")
                          \o nameAt(LUNAR_MONTH_NAMES, mw.lunarMonth - 1),
       lunarDayText |-> nameAt(LUNAR_DAY_NAMES, lunarDay - 1),
       ganZhiYear |-> nameAt(GAN, ganIndex) \o nameAt(ZHI, zhiIndex),
       locals |-> [offset |-> offset, yearOffset |-> yw.offset,
                   yearIterations |-> yw.iterations,
                   monthPasses |-> mw.passes,
                   monthDecrements |-> mw.decrements]]

getLunar_NoUpperCheck(year, month, day) ==
  IF year < 1900 THEN Throw ELSE getLunarBody(year, month, day)

getLunar(year, month, day) ==
  IF year < 1900 \/ year > 2100 THEN Throw
  ELSE getLunarBody(year, month, day)

(* === solar terms === *)

\* JIEQI_NAMES, two terms per month, the names in pinyin.
JIEQI_NAMES ==
  <<
    "xiaohan", "dahan",  \* month 1
    "lichun", "yushui",  \* month 2
    "jingzhe", "chunfen",  \* month 3
    "qingming", "guyu",  \* month 4
    "lixia", "xiaoman",  \* month 5
    "mangzhong", "xiazhi",  \* month 6
    "xiaoshu", "dashu",  \* month 7
    "liqiu", "chushu",  \* month 8
    "bailu", "qiufen",  \* month 9
    "hanlu", "shuangjiang",  \* month 10
    "lidong", "xiaoxue",  \* month 11
    "daxue", "dongzhi"   \* month 12
  >>

\* The coefficients and the factor 0.2422 are kept as integers, in units of
\* 1/10000: the sum Y * 0.2422 + C computed in doubles has the same floor as
\* the exact sum for every Y in 0..99 and every coefficient of the table.
JIEQI_SCALE == 10000

\* D of the formula [Y * D + C] - L
JIEQI_D == 2422

\* JIEQI_DATA: <<20th-century C, 21st-century C>> per term
JIEQI_DATA ==
  <<
    <<61100, 54055>>,  \* xiaohan: 6.11, 5.4055
    <<208400, 201200>>,  \* dahan: 20.84, 20.12
    <<46295, 38700>>,  \* lichun: 4.6295, 3.87
    <<194599, 187300>>,  \* yushui: 19.4599, 18.73
    <<63826, 56300>>,  \* jingzhe: 6.3826, 5.63
    <<214155, 206460>>,  \* chunfen: 21.4155, 20.646
    <<55900, 48100>>,  \* qingming: 5.59, 4.81
    <<208880, 201000>>,  \* guyu: 20.888, 20.1
    <<63180, 55200>>,  \* lixia: 6.318, 5.52
    <<218600, 210400>>,  \* xiaoman: 21.86, 21.04
    <<65000, 56780>>,  \* mangzhong: 6.5, 5.678
    <<222000, 213700>>,  \* xiazhi: 22.2, 21.37
    <<79280, 71080>>,  \* xiaoshu: 7.928, 7.108
    <<236500, 228300>>,  \* dashu: 23.65, 22.83
    <<83500, 75000>>,  \* liqiu: 8.35, 7.5
    <<239500, 231300>>,  \* chushu: 23.95, 23.13
    <<84400, 76460>>,  \* bailu: 8.44, 7.646
    <<238220, 230420>>,  \* qiufen: 23.822, 23.042
    <<90980, 83180>>,  \* hanlu: 9.098, 8.318
    <<242180, 234380>>,  \* shuangjiang: 24.218, 23.438
    <<82180, 74380>>,  \* lidong: 8.218, 7.438
    <<230800, 223600>>,  \* xiaoxue: 23.08, 22.36
    <<79000, 71800>>,  \* daxue: 7.9, 7.18
    <<226000, 219400>>   \* dongzhi: 22.6, 21.94
  >>

\* JIEQI_EXCEPTIONS: term index -> (year -> correction)
JIEQI_EXCEPTIONS ==
  0  :> (1982 :> 1 @@ 2019 :> -1) @@
  1  :> (2000 :> 1 @@ 2082 :> 1) @@
  3  :> (2026 :> -1) @@
  5  :> (2084 :> 1) @@
  9  :> (2008 :> 1) @@
  11 :> (1928 :> 1) @@
  12 :> (1925 :> 1 @@ 2016 :> 1) @@
  13 :> (1922 :> 1) @@
  14 :> (2002 :> 1) @@
  16 :> (1927 :> 1) @@
  17 :> (1942 :> 1) @@
  19 :> (2089 :> 1) @@
  20 :> (2089 :> 1) @@
  21 :> (1978 :> 1) @@
  22 :> (1954 :> 1) @@
  23 :> (1918 :> -1 @@ 2021 :> -1)

\* Reading data[1] or data[0] of an undefined data
ThrowTypeError == [kind |-> "throw", error |-> "TypeError"]

Value(n) == [kind |-> "value", value |-> n]

Null == [kind |-> "null"]

use21st_From2000(year, index) == year >= 2000

use21st_After2000(year, index) == year > 2000

\* var use21st = (year > 2000) || (year === 2000 && index > 3)
use21st(year, index) == year > 2000 \/ (year = 2000 /\ index > 3)

\* var C = use21st ? data[1] : data[0]
jieqiC(year, index) ==
  IF use21st(year, index) THEN JIEQI_DATA[index + 1][2]
  ELSE JIEQI_DATA[index + 1][1]

\* L: Math.floor((Y - 1) / 4) for index <= 3, Math.floor(Y / 4) otherwise
jieqiL(Y, index) == IF index <= 3 THEN (Y - 1) \div 4 ELSE Y \div 4

jieqiRaw_AddL(Y, C, L) == (Y * JIEQI_D + C) \div JIEQI_SCALE + L

\* Math.floor(Y * 0.2422 + C) - L
jieqiRaw(Y, C, L) == (Y * JIEQI_D + C) \div JIEQI_SCALE - L

jieqiException_Negated(year, index) ==
  IF index \in DOMAIN JIEQI_EXCEPTIONS
     /\ year \in DOMAIN JIEQI_EXCEPTIONS[index]
  THEN -JIEQI_EXCEPTIONS[index][year]
  ELSE 0

\* JIEQI_EXCEPTIONS[index] && JIEQI_EXCEPTIONS[index][year], 0 when falsy
jieqiException(year, index) ==
  IF index \in DOMAIN JIEQI_EXCEPTIONS
     /\ year \in DOMAIN JIEQI_EXCEPTIONS[index]
  THEN JIEQI_EXCEPTIONS[index][year]
  ELSE 0

getJieqiDate_FullYear(year, index) ==
  IF ~(index >= 0 /\ index < Len(JIEQI_DATA)) THEN ThrowTypeError
  ELSE LET C  == jieqiC(year, index)
           Y  == year
           L  == jieqiL(Y, index)
           jd == jieqiRaw(Y, C, L)
       IN  Value(jd + jieqiException(year, index))

getJieqiDate(year, index) ==
  IF ~(index >= 0 /\ index < Len(JIEQI_DATA)) THEN ThrowTypeError
  ELSE LET C  == jieqiC(year, index)
           Y  == jsRem(year, 100)
           L  == jieqiL(Y, index)
           jd == jieqiRaw(Y, C, L)
       IN  Value(jd + jieqiException(year, index))

getJieqi_SameIndex(year, month, day) ==
  IF year < 1900 \/ year > 2100 THEN Null
  ELSE LET index1 == (month - 1) * 2
           index2 == (month - 1) * 2
           jieqi1Date == getJieqiDate(year, index1)
           jieqi2Date == getJieqiDate(year, index2)
       IN  IF jieqi1Date.kind = "throw" THEN jieqi1Date
           ELSE IF jieqi2Date.kind = "throw" THEN jieqi2Date
           ELSE IF day = jieqi1Date.value THEN Value(JIEQI_NAMES[index1 + 1])
           ELSE IF day = jieqi2Date.value THEN Value(JIEQI_NAMES[index2 + 1])
           ELSE Null

getJieqi(year, month, day) ==
  IF year < 1900 \/ year > 2100 THEN Null
  ELSE LET index1 == (month - 1) * 2
           index2 == (month - 1) * 2 + 1
           jieqi1Date == getJieqiDate(year, index1)
           jieqi2Date == getJieqiDate(year, index2)
       IN  IF jieqi1Date.kind = "throw" THEN jieqi1Date
           ELSE IF jieqi2Date.kind = "throw" THEN jieqi2Date
           ELSE IF day = jieqi1Date.value THEN Value(JIEQI_NAMES[index1 + 1])
           ELSE IF day = jieqi2Date.value THEN Value(JIEQI_NAMES[index2 + 1])
           ELSE Null

(* === calendar grid and week number === *)

\* Year, month (1-12) and day of month of a day number, as the Date getters
\* return them.
DateFields(days) ==
  LET z   == days + 719468
      era == z \div 146097
      doe == z - era * 146097
      yoe == (doe - doe \div 1460 + doe \div 36524 - doe \div 146096) \div 365
      doy == doe - (365 * yoe + yoe \div 4 - yoe \div 100)
      mp  == (5 * doy + 2) \div 153
      m   == IF mp < 10 THEN mp + 3 ELSE mp - 9
  IN  [year  |-> yoe + era * 400 + (IF m <= 2 THEN 1 ELSE 0),
       month |-> m,
       date  |-> doy - (153 * mp + 2) \div 5 + 1]

\* Date.prototype.getDay of a day number: 0 = Sunday; 1970-01-01 was a
\* Thursday.
getDay(days) == (days + 4) % 7

getDaysInMonth_PrevMonth(year, month) ==
  DateFields(MakeDay(year, month, 0)).date

\* new Date(year, month, 0).getDate()
getDaysInMonth(year, month) == DateFields(MakeDay(year, month + 1, 0)).date

\* new Date(year, month - 1, 1).getDay()
getFirstDayOfWeek(year, month) == getDay(MakeDay(year, month, 1))

\* for (var i = 0; i < 42; i++) { ... grid.push(...) }
RECURSIVE gridLoop(_, _, _, _, _, _, _, _, _)
gridLoop(year, month, firstDay, daysInMonth, daysInPrevMonth, i, day, nextMonthDay, grid) ==
  IF ~(i < 42) THEN grid
  ELSE IF i < firstDay
  THEN gridLoop(year, month, firstDay, daysInMonth, daysInPrevMonth, i + 1,
         day, nextMonthDay,
         Append(grid, [year |-> IF month = 1 THEN year - 1 ELSE year,
                       month |-> IF month = 1 THEN 12 ELSE month - 1,
                       day |-> daysInPrevMonth - firstDay + i + 1,
                       isCurrentMonth |-> FALSE]))
  ELSE IF day <= daysInMonth
  THEN gridLoop(year, month, firstDay, daysInMonth, daysInPrevMonth, i + 1,
         day + 1, nextMonthDay,
         Append(grid, [year |-> year, month |-> month, day |-> day,
                       isCurrentMonth |-> TRUE]))
  ELSE gridLoop(year, month, firstDay, daysInMonth, daysInPrevMonth, i + 1,
         day, nextMonthDay + 1,
         Append(grid, [year |-> IF month = 12 THEN year + 1 ELSE year,
                       month |-> IF month = 12 THEN 1 ELSE month + 1,
                       day |-> nextMonthDay,
                       isCurrentMonth |-> FALSE]))

buildCalendarGrid_DayFromZero(year, month) ==
  gridLoop(year, month, getFirstDayOfWeek(year, month),
           getDaysInMonth(year, month), getDaysInMonth(year, month - 1),
           0, 0, 1, <<>>)

buildCalendarGrid(year, month) ==
  gridLoop(year, month, getFirstDayOfWeek(year, month),
           getDaysInMonth(year, month), getDaysInMonth(year, month - 1),
           0, 1, 1, <<>>)

\* Math.ceil(n / 7) of an integer n
ceilDiv7(n) == -((-n) \div 7)

getWeekNumber_OffsetOfDate(year, month, day) ==
  LET date           == getTime(year, month, day) - dst
      firstDayOfYear == getTime(year, 1, 1)
      dayOfYear      == (date - firstDayOfYear) \div MINUTES_PER_DAY + 1
      firstDayOffset == getDay(MakeDay(year, month, day))
  IN  ceilDiv7(dayOfYear + firstDayOffset)

getWeekNumber(year, month, day) ==
  LET date           == getTime(year, month, day) - dst
      firstDayOfYear == getTime(year, 1, 1)
      dayOfYear      == (date - firstDayOfYear) \div MINUTES_PER_DAY + 1
      firstDayOffset == getDay(MakeDay(year, 1, 1))
  IN  ceilDiv7(dayOfYear + firstDayOffset)

(* === calls === *)
InputYears == (1900 - Margin)..(2100 + Margin)

IsLeapYear(y) == (y % 4 = 0 /\ y % 100 # 0) \/ y % 400 = 0

CivilDaysInMonth(y, m) ==
  IF m = 2 THEN (IF IsLeapYear(y) THEN 29 ELSE 28)
  ELSE IF m \in {4, 6, 9, 11} THEN 30 ELSE 31

\* The callers pass dates of the Gregorian calendar only.
InputDates ==
  {<<y, m, d>> \in InputYears \X (1..12) \X (1..31) :
     d <= CivilDaysInMonth(y, m)}

\* Term indices, with Margin indices on each side of 0..23.
InputIndices == (0 - Margin)..(23 + Margin)

\* Whether daylight-saving time is in force at the local midnight of a date
\* where the clocks go forward at 2:00 of the first Sunday of April and back
\* at 2:00 of the last Sunday of October (North America, 1987 to 2006).
InDst(date) ==
  LET year        == date[1]
      firstSunday == 1 + ((7 - getDay(MakeDay(year, 4, 1))) % 7)
      lastSunday  == 31 - getDay(MakeDay(year, 10, 31))
      day         == MakeDay(date[1], date[2], date[3])
  IN  /\ year \in 1987..2006
      /\ day > MakeDay(year, 4, firstSunday)
      /\ day <= MakeDay(year, 10, lastSunday)

\* The minutes daylight-saving time is ahead at the local midnight of a
\* date: none in a zone that keeps standard time all year.
DstChoices(date) == IF InDst(date) THEN {0, 60} ELSE {0}

Init ==
  /\ pc = "call"
  /\ ret = [kind |-> "none"]
  /\ \/ fn = "getLunar" /\ args \in InputDates
     \/ fn \in {"getLeapMonth", "getLeapMonthDays", "getYearDays"}
        /\ args \in {<<y>> : y \in InputYears}
     \/ fn = "getMonthDays" /\ args \in InputYears \X (1..12)
     \/ fn = "getJieqiDate" /\ args \in InputYears \X InputIndices
     \/ fn \in {"getJieqi", "getWeekNumber"} /\ args \in InputDates
     \/ fn = "buildCalendarGrid" /\ args \in InputYears \X (1..12)
  /\ dst \in (IF fn \in {"getLunar", "getWeekNumber"} THEN DstChoices(args)
              ELSE {0})

Return(v) == pc' = "done" /\ ret' = v /\ UNCHANGED <<fn, args, dst>>

CallGetLunar ==
  pc = "call" /\ fn = "getLunar" /\ Return(getLunar(args[1], args[2], args[3]))

CallGetLeapMonth ==
  pc = "call" /\ fn = "getLeapMonth" /\ Return(Value(getLeapMonth(args[1])))

CallGetLeapMonthDays ==
  pc = "call" /\ fn = "getLeapMonthDays"
  /\ Return(Value(getLeapMonthDays(args[1])))

CallGetMonthDays ==
  pc = "call" /\ fn = "getMonthDays"
  /\ Return(Value(getMonthDays(args[1], args[2])))

CallGetYearDays ==
  pc = "call" /\ fn = "getYearDays" /\ Return(Value(getYearDays(args[1])))

CallGetJieqiDate ==
  pc = "call" /\ fn = "getJieqiDate" /\ Return(getJieqiDate(args[1], args[2]))

CallGetJieqi ==
  pc = "call" /\ fn = "getJieqi" /\ Return(getJieqi(args[1], args[2], args[3]))

CallBuildCalendarGrid ==
  pc = "call" /\ fn = "buildCalendarGrid"
  /\ Return(Value(buildCalendarGrid(args[1], args[2])))

CallGetWeekNumber ==
  pc = "call" /\ fn = "getWeekNumber"
  /\ Return(Value(getWeekNumber(args[1], args[2], args[3])))

\* The date after a date of the Gregorian calendar.
NextDate(date) ==
  IF date[3] < CivilDaysInMonth(date[1], date[2])
  THEN <<date[1], date[2], date[3] + 1>>
  ELSE IF date[2] < 12 THEN <<date[1], date[2] + 1, 1>>
  ELSE <<date[1] + 1, 1, 1>>

\* A caller that walks the calendar asks for the week number of the
\* following day.
CallGetWeekNumberNextDay ==
  /\ pc = "done" /\ fn = "getWeekNumber"
  /\ NextDate(args)[1] \in InputYears
  /\ args' = NextDate(args)
  /\ dst' \in {s \in DstChoices(args') :
                 InDst(args) /\ InDst(args') => s = dst}
  /\ ret' = Value(getWeekNumber(args[1], args[2], args[3]))'
  /\ UNCHANGED <<fn, pc>>

Next ==
  \/ CallGetLunar
  \/ CallGetLeapMonth
  \/ CallGetLeapMonthDays
  \/ CallGetMonthDays
  \/ CallGetYearDays
  \/ CallGetJieqiDate
  \/ CallGetJieqi
  \/ CallBuildCalendarGrid
  \/ CallGetWeekNumber
  \/ CallGetWeekNumberNextDay

Spec == Init /\ [][Next]_vars

(* === properties === *)

\* Day offset of a getLunar call from the epoch, as the call computes it.
Offset ==
  getDaysBetween(getTime(args[1], args[2], args[3]) - dst, LUNAR_BASE_DATE)

Returned == pc = "done" /\ fn = "getLunar"

Decoded(f) == pc = "done" /\ fn = f

TableYears == 1900..2100

\* The layout the table describes: the years follow each other from the
\* epoch, each year is its ordinal months 1..12 in order with the leap month
\* directly after ordinal month getLeapMonth.
RECURSIVE SumYearDays(_, _)
SumYearDays(a, b) ==
  IF a >= b THEN 0
  ELSE IF b = a + 1 THEN getYearDays(a)
  ELSE LET mid == (a + b) \div 2
       IN  SumYearDays(a, mid) + SumYearDays(mid, b)

\* (joined to the empty function so that the table is built once)
YearStart == [y \in 1900..2101 |-> SumYearDays(1900, y)] @@ <<>>

TableYearOf(o) ==
  CHOOSE y \in TableYears : YearStart[y] <= o /\ o < YearStart[y + 1]

RECURSIVE MonthsBefore(_, _)
MonthsBefore(y, m) ==
  IF m <= 1 THEN 0 ELSE MonthsBefore(y, m - 1) + getMonthDays(y, m - 1)

HasSegment(y, m, leap) == leap => getLeapMonth(y) = m

SegmentStart(y, m, leap) ==
  LET L == getLeapMonth(y)
  IN  MonthsBefore(y, m)
      + (IF L >= 1 /\ L < m THEN getLeapMonthDays(y) ELSE 0)
      + (IF leap THEN getMonthDays(y, m) ELSE 0)

\* C1: getLunar throws, and returns no lunar date, for every date whose year
\* is below 1900 or above 2100.
C1_YearOutOfRangeThrows ==
  Returned /\ (args[1] < 1900 \/ args[1] > 2100) => ret = Throw

C1_Witness == Returned /\ args = <<2101, 1, 1>> /\ ret = Throw

\* C2: every date before the epoch 1900-01-31 (negative offset), the dates
\* 1900-01-01..1900-01-30 included, makes getLunar fail.
C2_PreEpochFails == Returned /\ Offset < 0 => ret = Throw

\* C3: getLunar(1900, 1, 31), offset 0, is lunar 1900-1-1, not a leap month.
C3_EpochAnchor ==
  Returned /\ args = <<1900, 1, 31>> =>
    /\ Offset = 0
    /\ ret.kind = "ok"
    /\ ret.lunarYear = 1900 /\ ret.lunarMonth = 1 /\ ret.lunarDay = 1
    /\ ret.isLeapMonth = FALSE

C3_Witness ==
  Returned /\ args = <<1900, 1, 31>> /\ ret.kind = "ok" /\ ret.lunarDay = 1

\* C4: whenever getLunar returns isLeapMonth = true, the returned lunarMonth
\* is the decoded leap month of the returned lunarYear.
C4_LeapFlagOnlyOnLeapMonth ==
  Returned /\ ret.kind = "ok" /\ Offset >= 0 /\ ret.isLeapMonth
    => ret.lunarMonth = getLeapMonth(ret.lunarYear)

\* C5: for every date from 1900-01-31 to 2100-12-31 the returned lunarDay is
\* at most the decoded length of the returned segment.
C5_DayWithinSegment ==
  Returned /\ ret.kind = "ok" /\ Offset >= 0 =>
    ret.lunarDay <= (IF ret.isLeapMonth THEN getLeapMonthDays(ret.lunarYear)
                     ELSE getMonthDays(ret.lunarYear, ret.lunarMonth))

\* C6: the first day of every segment of the table layout converts back to
\* that year, that month, day 1, and the leap flag of the segment.
C6_RoundTrip ==
  Returned /\ ret.kind = "ok" /\ Offset >= 0 =>
    LET y == TableYearOf(Offset)
    IN  \A m \in 1..12, leap \in BOOLEAN :
          HasSegment(y, m, leap)
          /\ Offset = YearStart[y] + SegmentStart(y, m, leap)
          => /\ ret.lunarYear = y
             /\ ret.lunarMonth = m
             /\ ret.lunarDay = 1
             /\ ret.isLeapMonth = leap

\* C7: getYearDays of every table year lies in 353..385.
C7_YearDaysRange ==
  Decoded("getYearDays") /\ args[1] \in TableYears => ret.value \in 353..385

\* C8: the leap month decoded for every table year lies in 0..12.
C8_LeapMonthRange ==
  Decoded("getLeapMonth") /\ args[1] \in TableYears => ret.value \in 0..12

\* C9: in a year with leap month L in 1..12, every date whose offset within
\* the year lies in the leap segment (directly after ordinal month L) is
\* returned as month L with isLeapMonth = true, also for L = 12.
C9_LeapSegmentPlacement ==
  Returned /\ ret.kind = "ok" /\ Offset >= 0 =>
    LET y     == TableYearOf(Offset)
        L     == getLeapMonth(y)
        first == YearStart[y] + MonthsBefore(y, L + 1)
    IN  L \in 1..12 /\ Offset >= first /\ Offset < first + getLeapMonthDays(y)
        => ret.lunarYear = y /\ ret.lunarMonth = L /\ ret.isLeapMonth

\* C10: for every date from 1900-01-31 to 2100-12-31 getLunar returns
\* lunarMonth in 1..12 and lunarDay in 1..30, so both name lookups stay
\* inside their tables.
C10_MonthAndDayInRange ==
  Returned /\ Offset >= 0 /\ args[1] <= 2100 =>
    /\ ret.kind = "ok"
    /\ ret.lunarMonth \in 1..12 /\ ret.lunarDay \in 1..30
    /\ ret.lunarMonthText \in
         {p \o LUNAR_MONTH_NAMES[k] : p \in {"", "run"}, k \in 1..12}
    /\ ret.lunarDayText \in {LUNAR_DAY_NAMES[k] : k \in 1..30}

C10_Witness ==
  Returned /\ Offset >= 0 /\ ret.kind = "ok"
  /\ ret.lunarMonth = 12 /\ ret.lunarDay = 30 /\ ret.lunarDayText = "sanshi"

TermIndices == 0..23

Century20(index) == JIEQI_DATA[index + 1][1]

Century21(index) == JIEQI_DATA[index + 1][2]

\* The day getJieqiDate returns when it computes with coefficient C.
DateWith(year, index, C) ==
  jieqiRaw(jsRem(year, 100), C, jieqiL(jsRem(year, 100), index))
  + jieqiException(year, index)

\* C11: getJieqi with a year outside 1900..2100 and getJieqiDate with an
\* index outside 0..23 both end in an error, never in a value or "no term".
C11_TermOutOfRangeFails ==
  /\ Decoded("getJieqi") /\ (args[1] < 1900 \/ args[1] > 2100)
       => ret.kind = "throw"
  /\ Decoded("getJieqiDate") /\ args[2] \notin TermIndices
       => ret.kind = "throw"

\* C12: for every table year and term index 0..23 getJieqiDate returns a
\* day in 1..31 that exists in the term's month floor(index / 2) + 1.
C12_TermDayInMonth ==
  Decoded("getJieqiDate") /\ args[1] \in TableYears /\ args[2] \in TermIndices
    => /\ ret.kind = "value"
       /\ ret.value \in 1..31
       /\ ret.value <= CivilDaysInMonth(args[1], args[2] \div 2 + 1)

C12_Witness ==
  Decoded("getJieqiDate") /\ args = <<1900, 19>> /\ ret = Value(24)

\* C13: in every table year the two term dates of a month are ordered,
\* first < second, and getJieqi names the first term on the first date, the
\* second term on the second date and returns null on every other day.
C13_TwoTermsPerMonth ==
  Decoded("getJieqi") /\ args[1] \in TableYears =>
    LET index1 == 2 * (args[2] - 1)
        index2 == 2 * (args[2] - 1) + 1
        d1     == getJieqiDate(args[1], index1).value
        d2     == getJieqiDate(args[1], index2).value
    IN  /\ d1 < d2
        /\ args[3] = d1 => ret = Value(JIEQI_NAMES[index1 + 1])
        /\ args[3] = d2 => ret = Value(JIEQI_NAMES[index2 + 1])
        /\ args[3] \notin {d1, d2} => ret = Null
        /\ JIEQI_NAMES[index1 + 1] # JIEQI_NAMES[index2 + 1]

C13_Witness ==
  Decoded("getJieqi") /\ args = <<2024, 2, 19>> /\ ret = Value("yushui")

\* C14: getJieqiDate computes with the 20th-century coefficient for every
\* year below 2000 and for year 2000 with indices 0..3, and with the
\* 21st-century coefficient for every year above 2000.
C14_CenturyCoefficient ==
  Decoded("getJieqiDate") /\ args[2] \in TermIndices
  /\ (args[1] # 2000 \/ args[2] <= 3) =>
    LET C == IF args[1] <= 2000 THEN Century20(args[2])
             ELSE Century21(args[2])
    IN  /\ jieqiC(args[1], args[2]) = C
        /\ ret = Value(DateWith(args[1], args[2], C))

C14_Witness ==
  Decoded("getJieqiDate") /\ args = <<2000, 0>> /\ ret = Value(7)
  /\ DateWith(2000, 0, Century21(0)) = 6

\* C15 as stated: for indices 4..23 the 20th-century coefficient is used
\* through year 2000 inclusive, the 21st-century one only above 2000.
C15_Year2000Uses20th ==
  Decoded("getJieqiDate") /\ args[2] \in 4..23 =>
    LET C == IF args[1] <= 2000 THEN Century20(args[2])
             ELSE Century21(args[2])
    IN  /\ jieqiC(args[1], args[2]) = C
        /\ ret = Value(DateWith(args[1], args[2], C))

\* C15 amended: for indices 4..23 the 20th-century coefficient is used for
\* years below 2000 only; year 2000 and every later year use the
\* 21st-century coefficient.
C15_Year2000Uses21st ==
  Decoded("getJieqiDate") /\ args[2] \in 4..23 =>
    LET C == IF args[1] < 2000 THEN Century20(args[2])
             ELSE Century21(args[2])
    IN  /\ jieqiC(args[1], args[2]) = C
        /\ ret = Value(DateWith(args[1], args[2], C))

C15_Witness ==
  Decoded("getJieqiDate") /\ args = <<2000, 4>> /\ ret = Value(5)
  /\ DateWith(2000, 4, Century20(4)) = 6

\* C16: getJieqiDate(2024, 0), minor cold of 2024, is 5 or 6.
C16_MinorCold2024 ==
  Decoded("getJieqiDate") /\ args = <<2024, 0>> =>
    ret.kind = "value" /\ ret.value \in {5, 6}

C16_Witness == Decoded("getJieqiDate") /\ args = <<2024, 0>> /\ ret = Value(6)

\* The pairs the exception table lists: <<index, year, correction>>.
ListedExceptions ==
  {<<0, 1982, 1>>, <<0, 2019, -1>>, <<1, 2000, 1>>, <<1, 2082, 1>>,
   <<3, 2026, -1>>, <<5, 2084, 1>>, <<9, 2008, 1>>, <<11, 1928, 1>>,
   <<12, 1925, 1>>, <<12, 2016, 1>>, <<13, 1922, 1>>, <<14, 2002, 1>>,
   <<16, 1927, 1>>, <<17, 1942, 1>>, <<19, 2089, 1>>, <<20, 2089, 1>>,
   <<21, 1978, 1>>, <<22, 1954, 1>>, <<23, 1918, -1>>, <<23, 2021, -1>>}

\* floor(Y * 0.2422 + C) - L with Y = year mod 100, L = floor((Y - 1) / 4)
\* for indices 0..3 and floor(Y / 4) otherwise.
RawDate(year, index) ==
  LET Y == year % 100
      L == IF index <= 3 THEN (Y - 1) \div 4 ELSE Y \div 4
  IN  (Y * 2422 + jieqiC(year, index)) \div 10000 - L

\* C17: for every table year and index 0..23 getJieqiDate is the raw value
\* plus the listed correction: the listed pairs differ from the raw value by
\* their +1 or -1, every other pair equals the raw value.
C17_RawPlusException ==
  Decoded("getJieqiDate") /\ args[1] \in TableYears /\ args[2] \in TermIndices
    => /\ ret.kind = "value"
       /\ \A e \in ListedExceptions :
            e[1] = args[2] /\ e[2] = args[1]
            => e[3] \in {1, -1} /\ ret.value = RawDate(args[1], args[2]) + e[3]
       /\ (\A e \in ListedExceptions : ~(e[1] = args[2] /\ e[2] = args[1]))
            => ret.value = RawDate(args[1], args[2])

C17_Witness ==
  Decoded("getJieqiDate") /\ args = <<2019, 0>>
  /\ RawDate(2019, 0) = 6 /\ ret = Value(5)

IsCalendarDate(cell) ==
  /\ cell.month \in 1..12
  /\ cell.day \in 1..CivilDaysInMonth(cell.year, cell.month)

\* C18: buildCalendarGrid returns 42 cells, the cell at index
\* getFirstDayOfWeek(year, month) is day 1 of the current month and no cell
\* before it is of the current month.
C18_FirstOfMonthCell ==
  Decoded("buildCalendarGrid") =>
    LET grid     == ret.value
        firstDay == getFirstDayOfWeek(args[1], args[2])
    IN  /\ Len(grid) = 42
        /\ firstDay \in 0..6
        /\ grid[firstDay + 1].day = 1
        /\ grid[firstDay + 1].isCurrentMonth = TRUE
        /\ \A k \in 1..firstDay : grid[k].isCurrentMonth = FALSE

C18_Witness ==
  Decoded("buildCalendarGrid") /\ args = <<2024, 6>>
  /\ getFirstDayOfWeek(2024, 6) = 6
  /\ ret.value[7] = [year |-> 2024, month |-> 6, day |-> 1,
                     isCurrentMonth |-> TRUE]
  /\ ret.value[6].isCurrentMonth = FALSE

\* C19: the 42 cells are 42 consecutive calendar dates; the cells of the
\* current month are exactly the days 1..daysInMonth of the target month,
\* the cells before them end on the last day of the previous month and the
\* cells after them start on day 1 of the next month.
C19_ConsecutiveDates ==
  Decoded("buildCalendarGrid") =>
    LET grid == ret.value
    IN  /\ Len(grid) = 42
        /\ \A k \in 1..42 : IsCalendarDate(grid[k])
        /\ \A k \in 1..41 :
             MakeDay(grid[k + 1].year, grid[k + 1].month, grid[k + 1].day)
             = MakeDay(grid[k].year, grid[k].month, grid[k].day) + 1
        /\ \A k \in 1..42 :
             grid[k].isCurrentMonth
             <=> (grid[k].year = args[1] /\ grid[k].month = args[2])
        /\ Cardinality({k \in 1..42 : grid[k].isCurrentMonth})
           = CivilDaysInMonth(args[1], args[2])

C19_Witness ==
  Decoded("buildCalendarGrid") /\ args = <<2024, 1>>
  /\ ret.value[1] = [year |-> 2023, month |-> 12, day |-> 31,
                     isCurrentMonth |-> FALSE]
  /\ ret.value[42] = [year |-> 2024, month |-> 2, day |-> 10,
                      isCurrentMonth |-> FALSE]

\* C20: from one day to the next getWeekNumber never decreases inside a
\* year; it decreases only from 31 December to 1 January of the next year.
C20_WeekNumberMonotone ==
  [][fn = "getWeekNumber" /\ pc = "done" /\ pc' = "done" =>
       /\ args' = NextDate(args)
       /\ args'[1] = args[1] => ret'.value >= ret.value
       /\ ret'.value < ret.value =>
            /\ args[2] = 12 /\ args[3] = 31
            /\ args' = <<args[1] + 1, 1, 1>>]_vars

C20_Witness ==
  Decoded("getWeekNumber") /\ args = <<2024, 1, 7>> /\ ret = Value(2)
  /\ getWeekNumber(2024, 1, 6) = 1

\* The name of a lunar year in the cycle of sixty: its stem, then its branch.
GanZhiName(y) == GAN[((y - 4) % 10) + 1] \o ZHI[((y - 4) % 12) + 1]

\* C21: the year name getLunar returns is the stem of index
\* (lunarYear - 4) mod 10 followed by the branch of index
\* (lunarYear - 4) mod 12, both indices inside their tables; the lunar year
\* sixty years later has the same name and the 59 lunar years in between
\* have other names.
C21_SexagenaryCycle ==
  Returned /\ ret.kind = "ok" =>
    /\ jsRem(ret.lunarYear - 4, 10) \in 0..(Len(GAN) - 1)
    /\ jsRem(ret.lunarYear - 4, 12) \in 0..(Len(ZHI) - 1)
    /\ Len(GAN) = 10 /\ Len(ZHI) = 12
    /\ ret.ganZhiYear = GanZhiName(ret.lunarYear)
    /\ GanZhiName(ret.lunarYear + 60) = ret.ganZhiYear
    /\ \A k \in 1..59 : GanZhiName(ret.lunarYear + k) # ret.ganZhiYear

C21_Witness ==
  Returned /\ ret.kind = "ok" /\ ret.lunarYear = 1984
  /\ ret.ganZhiYear = "jiazi"

\* C23: the decoders of the table reject a year the table has no entry for:
\* getLeapMonth, getLeapMonthDays, getMonthDays and getYearDays of a year
\* below 1900 or above 2100 fail instead of returning a decoded value.
C23_DecoderRejectsMissingYear ==
  /\ pc = "done"
  /\ fn \in {"getLeapMonth", "getLeapMonthDays", "getMonthDays", "getYearDays"}
  /\ args[1] \notin TableYears
  => ret.kind = "throw"

\* One pass of the loop "while offset >= yearTotalDays(lunarYear)".
totalDaysWalkStep(st) ==
  IF st.offset >= getYearDays(st.lunarYear)
  THEN [st EXCEPT !.offset = st.offset - getYearDays(st.lunarYear),
                  !.lunarYear = st.lunarYear + 1,
                  !.iterations = st.iterations + 1]
  ELSE [st EXCEPT !.running = FALSE]

RECURSIVE totalDaysWalkRun(_, _)
totalDaysWalkRun(n, st) ==
  IF ~st.running THEN st
  ELSE IF n <= 1 THEN totalDaysWalkStep(st)
  ELSE totalDaysWalkRun(n - n \div 2, totalDaysWalkRun(n \div 2, st))

totalDaysWalk(offset) ==
  totalDaysWalkRun(YearWalkFuel,
                   [lunarYear |-> LUNAR_BASE_YEAR, offset |-> offset,
                    iterations |-> 0, running |-> TRUE])

\* The years of the table follow each other without overlap, so an offset
\* lies in the days of at most one year.
YearStartIncreasing == \A y \in TableYears : YearStart[y] < YearStart[y + 1]

\* C24: for a date at offset >= 0 the year walk settles on the one table
\* year y whose days, counted with getYearDays from 1900, contain the
\* offset, and hands offset - (days of 1900..y-1) to the month walk; the
\* loop "while offset >= yearTotalDays(lunarYear)" ends in the same year
\* with the same offset.
C24_YearWalk ==
  Returned /\ ret.kind = "ok" /\ ret.locals.offset >= 0 =>
    LET y      == ret.lunarYear
        offset == ret.locals.offset
        exit   == [lunarYear |-> y, offset |-> offset - YearStart[y],
                   iterations |-> y - LUNAR_BASE_YEAR, running |-> FALSE]
    IN  /\ YearStartIncreasing
        /\ y \in TableYears
        /\ YearStart[y] <= offset /\ offset < YearStart[y + 1]
        /\ ret.locals.yearOffset = exit.offset
        /\ ret.locals.yearIterations = exit.iterations
        /\ totalDaysWalk(offset) = exit

C24_Witness ==
  Returned /\ ret.kind = "ok" /\ Offset = YearStart[1901]
  /\ ret.lunarYear = 1901 /\ ret.lunarMonth = 1 /\ ret.lunarDay = 1

\* The machine with the states "before", "inside" and "after" the leap
\* month: it consumes the segments month 1, ..., month L, leap L,
\* month L + 1, ..., month 12 of year y from left to right, and is entered
\* in "before" only when the year has a leap month.
RECURSIVE segmentMachine(_, _, _, _)
segmentMachine(y, state, m, offset) ==
  LET L   == getLeapMonth(y)
      len == IF state = "inside" THEN getLeapMonthDays(y)
             ELSE getMonthDays(y, m)
  IN  IF m > 12 THEN [lunarMonth |-> m, isLeapMonth |-> FALSE, lunarDay |-> 0]
      ELSE IF offset < len
      THEN [lunarMonth |-> m, isLeapMonth |-> state = "inside",
            lunarDay |-> offset + 1]
      ELSE IF state = "before" /\ m = L
      THEN segmentMachine(y, "inside", m, offset - len)
      ELSE IF state = "inside"
      THEN segmentMachine(y, "after", m + 1, offset - len)
      ELSE segmentMachine(y, state, m + 1, offset - len)

\* C25: for every table year and every offset inside the year, the month
\* walk of getLunar returns the lunarMonth, isLeapMonth and lunarDay that the
\* three-state machine over the year's segments returns.
C25_MonthWalkIsSegmentMachine ==
  Returned /\ ret.kind = "ok" /\ ret.locals.offset >= 0 =>
    LET y     == ret.lunarYear
        start == IF getLeapMonth(y) # 0 THEN "before" ELSE "after"
        m     == segmentMachine(y, start, 1, ret.locals.yearOffset)
    IN  /\ ret.locals.yearOffset < getYearDays(y)
        /\ ret.lunarMonth = m.lunarMonth
        /\ ret.isLeapMonth = m.isLeapMonth
        /\ ret.lunarDay = m.lunarDay

\* The passes of the while loop of a call: the passes that went on to the
\* next year, and the pass that left the loop at its break, if there was one.
YearWalkPasses ==
  ret.locals.yearIterations
  + (IF ret.lunarYear < 2101 /\ ret.locals.yearOffset > 0 THEN 1 ELSE 0)

\* C26: on every date getLunar accepts (year 1900..2100) both loops end: the
\* year walk after at most 201 passes, the month walk after at most 13
\* passes, of which at most one decrements i.
C26_LoopsTerminate ==
  Returned /\ args[1] \in 1900..2100 =>
    /\ ret.kind = "ok"
    /\ YearWalkPasses \in 0..201
    /\ ret.locals.monthPasses \in 0..13
    /\ ret.locals.monthDecrements \in 0..1

C26_Witness ==
  Returned /\ ret.kind = "ok" /\ args[1] = 2100
  /\ YearWalkPasses > 190
  /\ ret.locals.monthPasses = 13 /\ ret.locals.monthDecrements = 1

\* What getLunar returns for the date at offset o inside lunar year y, the
\* year walk having settled on y (C24): the tuple that identifies a lunar
\* date.
LunarTupleAt(y, o) ==
  LET mw == monthWalk(y, getLeapMonth(y), 1, o, FALSE, 0, 0)
  IN  <<y, mw.lunarMonth, mw.isLeapMonth, mw.offset + 1>>

\* C27: no earlier date from 1900-01-31 on returns the tuple (lunarYear,
\* lunarMonth, isLeapMonth, lunarDay) that getLunar returns for this date:
\* getLunar is injective on the accepted dates (both dates on standard
\* time; a date of another lunar year differs in lunarYear).
C27_Injective ==
  Returned /\ ret.kind = "ok" /\ ret.locals.offset >= 0 /\ dst = 0 =>
    \A o \in 0..(ret.locals.yearOffset - 1) :
      LunarTupleAt(ret.lunarYear, o)
        # <<ret.lunarYear, ret.lunarMonth, ret.isLeapMonth, ret.lunarDay>>

\* C28: for every date from 1900-01-31 to 2100-12-31 the lunarYear that
\* getLunar returns is the Gregorian year of the date or the year before it.
C28_LunarYearNearGregorianYear ==
  Returned /\ ret.kind = "ok" /\ ret.locals.offset >= 0 =>
    ret.lunarYear \in {args[1] - 1, args[1]}

\* C29: on every date with year 1900..2100 the year walk ends on a lunarYear
\* of at most 2100; it read the table for the years 1900..lunarYear and the
\* month walk reads it for lunarYear, so every index into LUNAR_INFO is in
\* 0..200 and no decoder is evaluated on a missing entry.
C29_TableReadsInRange ==
  Returned /\ args[1] \in 1900..2100 =>
    /\ ret.kind = "ok"
    /\ Len(LUNAR_INFO) = 201
    /\ ret.lunarYear = LUNAR_BASE_YEAR + ret.locals.yearIterations
    /\ ret.lunarYear - LUNAR_BASE_YEAR \in 0..(Len(LUNAR_INFO) - 1)
    /\ getLunarYearInfo(ret.lunarYear) # Undefined

C29_Witness ==
  Returned /\ args = <<2100, 12, 31>> /\ dst = 0 /\ ret.kind = "ok"
  /\ ret.lunarYear = 2092 /\ ret.locals.yearIterations = 192

\* C30: getWeekNumber of 1 January is 1 and the week number of every day is
\* in 1..54; from one day to the next inside a year it grows by exactly 1
\* when the later day is a Sunday and stays the same otherwise.
C30_WeekNumberSteps ==
  /\ [](Decoded("getWeekNumber") =>
          /\ ret.value \in 1..54
          /\ (args[2] = 1 /\ args[3] = 1 => ret.value = 1))
  /\ [][fn = "getWeekNumber" /\ pc = "done" /\ pc' = "done"
          /\ args'[1] = args[1] =>
            ret'.value = ret.value
              + (IF getDay(MakeDay(args'[1], args'[2], args'[3])) = 0
                 THEN 1 ELSE 0)]_vars
====
